---- MODULE Spec2Model ----
(***************************************************************************)
(* Model of app.py, the Streamlit "Image Manipulation Studio".             *)
(*                                                                         *)
(* Streamlit re-executes the whole script after every user interaction.    *)
(* A state of the model is the session state that survives between two     *)
(* executions (the widget values) together with what the last execution    *)
(* rendered.  Every action is one interaction followed by the complete     *)
(* re-execution of the script for the selected tool.                       *)
(*                                                                         *)
(* Pillow and rembg are external; the operators Image_open, st_image,      *)
(* resize, convert, save and remove describe the behaviour of the calls    *)
(* the script makes on them.                                               *)
(***************************************************************************)
EXTENDS Integers, Sequences, FiniteSets, TLC

(* ------------------------------ bounds --------------------------------- *)

\* Source images of every size 0..MaxDim x 0..MaxDim are uploaded.
MaxDim == 9

\* Values 1..MaxInput are typed into the width / height number inputs.
MaxInput == 3

(* ------------------------- program constants --------------------------- *)

MinPercentage == 10
MaxPercentage == 200
PercentageStep == 5
DefaultPercentage == 100

MinInputDim == 1
MaxInputDim == 10000

MinQuality == 1
MaxQuality == 100
DefaultJpegQuality == 85
DefaultWebpQuality == 80

DefaultBgColor == "#FFFFFF"

\* Largest width/height the WebP and JPEG encoders accept.
WebpMaxDimension == 16383
JpegMaxDimension == 65500

(* ------------------------------ helpers -------------------------------- *)

Range(s) == {s[i] : i \in DOMAIN s}

RECURSIVE Pow2(_)
Pow2(n) == IF n = 0 THEN 1 ELSE 2 * Pow2(n - 1)

\* floor(log2(t)) for t >= 1
RECURSIVE FloorLog2(_)
FloorLog2(t) == IF t < 2 THEN 0 ELSE 1 + FloorLog2(t \div 2)

(* ------------------- Python float arithmetic (binary64) ---------------- *)
(* int(a / b) for integers a >= 0, b >= 1 below 2^53: the division is one  *)
(* correctly rounded operation; a quotient that is not an integer is at    *)
(* least 1/b away from the next integer, far more than the rounding error, *)
(* and an integer quotient is exact.  Truncation therefore gives floor.    *)
IntOfQuotient(a, b) == a \div b

(* int(w / (W / H)) is two rounded operations.  r = fl(W/H) carries a      *)
(* rounding error; when r was rounded up and w*H/W is an integer t, the    *)
(* second quotient can land on the double just below t and int() returns   *)
(* t - 1.  The operators below decide this exactly with integers only.     *)

\* the exponent j with 2^j <= W/H < 2^(j+1)
RECURSIVE RatioExponent(_, _)
RatioExponent(W, H) ==
    IF W >= H
    THEN IF 2 * H <= W THEN 1 + RatioExponent(W, 2 * H) ELSE 0
    ELSE RatioExponent(2 * W, H) - 1

\* (x * 2^n) mod H
RECURSIVE ShiftMod(_, _, _)
ShiftMod(x, n, H) == IF n = 0 THEN x % H ELSE ShiftMod((2 * x) % H, n - 1, H)

\* remainder of the 53-bit significand of W/H: zero iff W/H is a double
RatioRemainder(W, H) == ShiftMod(W % H, 52 - RatioExponent(W, H), H)

\* fl(W/H) > W/H
RatioRoundedUp(W, H) == 2 * RatioRemainder(W, H) > H

\* w / fl(W/H) rounds to a double below the integer t = w*H/W
QuotientFallsBelow(w, W, H) ==
    LET t == (w * H) \div W
        j == RatioExponent(W, H)
        k == FloorLog2(t)
        m == IF t = Pow2(k) THEN 4 ELSE 2
        d == H - RatioRemainder(W, H)
        lhs == IF j >= 0 THEN m * t * d * Pow2(j) ELSE m * t * d
        rhs == IF j >= 0 THEN W * Pow2(k) ELSE W * Pow2(k) * Pow2(0 - j)
    IN  lhs > rhs

\* int(w / (W / H)) for w, W, H >= 1
IntOfRatioQuotient(w, W, H) ==
    LET t == (w * H) \div W
    IN  IF /\ (w * H) % W = 0
           /\ RatioRoundedUp(W, H)
           /\ QuotientFallsBelow(w, W, H)
        THEN t - 1
        ELSE t

(* ---------------------------- uploaded files ---------------------------- *)
(* An uploaded file is described by what Pillow finds in it:               *)
(*   kind "image"     well-formed file; width/height are the header's      *)
(*   kind "truncated" valid header, pixel data cut off                     *)
(*   kind "corrupt"   bytes no decoder identifies                          *)
(*   kind "empty"     zero bytes                                           *)
(* length is len(uploaded_file.getvalue()); transparency is the palette    *)
(* transparency entry (info["transparency"]) of a mode P image.            *)

NoFile ==
    [kind |-> "none", width |-> 0, height |-> 0, mode |-> "RGB",
     format |-> "PNG", transparency |-> FALSE, length |-> 0]

ImageFile(w, h, m, f, t) ==
    [kind |-> "image", width |-> w, height |-> h, mode |-> m,
     format |-> f, transparency |-> t, length |-> 1000]

\* every header size 0..MaxDim x 0..MaxDim, as RGB PNG
SizeFiles == {ImageFile(w, h, "RGB", "PNG", FALSE) : w \in 0..MaxDim, h \in 0..MaxDim}

\* (format, mode, palette transparency) combinations Pillow decodes
DecodedKinds ==
    { <<"PNG", "L", FALSE>>, <<"PNG", "LA", FALSE>>, <<"PNG", "P", FALSE>>,
      <<"PNG", "P", TRUE>>, <<"PNG", "RGBA", FALSE>>,
      <<"JPEG", "L", FALSE>>, <<"JPEG", "RGB", FALSE>>, <<"JPEG", "CMYK", FALSE>>,
      <<"WEBP", "RGB", FALSE>>, <<"WEBP", "RGBA", FALSE>>,
      <<"BMP", "P", FALSE>>, <<"BMP", "RGB", FALSE>>,
      <<"GIF", "P", TRUE>>, <<"GIF", "P", FALSE>>,
      <<"TIFF", "RGBA", FALSE>>, <<"TIFF", "LA", FALSE>>, <<"TIFF", "CMYK", FALSE>> }

ModeFiles == {ImageFile(3, 2, k[2], k[1], k[3]) : k \in DecodedKinds}

ScenarioFiles ==
    { ImageFile(800, 600, "RGBA", "PNG", FALSE),
      ImageFile(500, 500, "RGBA", "PNG", FALSE),
      ImageFile(9000, 7, "RGB", "WEBP", FALSE) }

BrokenFiles ==
    { [ImageFile(3, 2, "RGB", "PNG", FALSE) EXCEPT !.kind = "truncated"],
      [ImageFile(0, 0, "RGB", "PNG", FALSE) EXCEPT !.kind = "corrupt"],
      [ImageFile(0, 0, "RGB", "PNG", FALSE) EXCEPT !.kind = "empty", !.length = 0] }

Files == SizeFiles \cup ModeFiles \cup ScenarioFiles \cup BrokenFiles

\* file_uploader(type=[...]): formats the three uploaders accept
UploaderTypes(tool) ==
    IF tool = "Format Conversion"
    THEN {"PNG", "JPEG", "WEBP", "BMP", "GIF", "TIFF"}
    ELSE {"PNG", "JPEG", "WEBP", "BMP"}

(* ------------------------------- Pillow -------------------------------- *)

Image_open_unchecked(f) ==
    IF f.kind \in {"image", "truncated"}
    THEN [ok |-> TRUE, width |-> f.width, height |-> f.height, mode |-> f.mode,
          format |-> f.format, transparency |-> f.transparency]
    ELSE [ok |-> FALSE, width |-> f.width, height |-> f.height, mode |-> f.mode,
          format |-> f.format, transparency |-> f.transparency]

\* Image.open(uploaded_file): raises UnidentifiedImageError unless a decoder
\* identifies the header; every decoder rejects a header size <= 0.
Image_open(f) ==
    IF f.kind \in {"image", "truncated"} /\ f.width > 0 /\ f.height > 0
    THEN [ok |-> TRUE, width |-> f.width, height |-> f.height, mode |-> f.mode,
          format |-> f.format, transparency |-> f.transparency]
    ELSE [ok |-> FALSE, width |-> f.width, height |-> f.height, mode |-> f.mode,
          format |-> f.format, transparency |-> f.transparency]

\* st.image(image): loads the pixel data; raises OSError on a truncated file
st_image_raises(f) == f.kind = "truncated"

\* the mode has an alpha band
HasAlphaBand(mode) == mode \in {"RGBA", "LA"}

\* the image carries transparency in any form
HasTransparency(img) == HasAlphaBand(img.mode) \/ img.transparency

\* image.resize(size, LANCZOS): ValueError unless both sides are > 0
resize_raises(w, h) == w < 1 \/ h < 1

resize(img, w, h) == [img EXCEPT !.width = w, !.height = h]

\* Image.convert("RGB"): drops the alpha band / palette transparency
convert_RGB(img) == [img EXCEPT !.mode = "RGB", !.transparency = FALSE]

\* background = Image.new("RGB", size, bg_color); background.paste(image, mask=alpha)
composite(img) == [img EXCEPT !.mode = "RGB", !.transparency = FALSE]

\* modes each encoder writes without converting; WebP, GIF and TIFF take all
\* modes of the model
WritableModes(format) ==
    CASE format = "JPEG" -> {"L", "RGB", "CMYK"}
      [] format = "BMP"  -> {"L", "P", "RGB", "RGBA"}
      [] format = "PNG"  -> {"L", "LA", "P", "RGB", "RGBA"}
      [] OTHER           -> {"L", "LA", "P", "RGB", "RGBA", "CMYK"}

\* img.save(buffer, format=...): raises OSError / ValueError
save_raises(img, format) ==
    \/ img.mode \notin WritableModes(format)
    \/ format = "WEBP" /\ (img.width > WebpMaxDimension \/ img.height > WebpMaxDimension)
    \/ format = "JPEG" /\ (img.width > JpegMaxDimension \/ img.height > JpegMaxDimension)

(* --------------------------- Image Resizing ---------------------------- *)

ResizeMethods == <<"Percentage", "Custom Dimensions", "Preset Sizes">>

\* values of the percentage slider
Percentages ==
    {p \in MinPercentage..MaxPercentage : (p - MinPercentage) % PercentageStep = 0}

\* options of the preset selectbox, in order
PresetOptions ==
    << "Thumbnail (150x150)", "Small (320x240)", "Medium (640x480)",
       "Large (1024x768)", "HD (1920x1080)", "Instagram Square (1080x1080)",
       "Instagram Portrait (1080x1350)", "Twitter (1200x675)",
       "Facebook Cover (820x312)" >>

preset_sizes_swapped ==
    [n \in {"Thumbnail (150x150)", "Small (320x240)", "Medium (640x480)",
            "Large (1024x768)", "HD (1920x1080)", "Instagram Square (1080x1080)",
            "Instagram Portrait (1080x1350)", "Twitter (1200x675)",
            "Facebook Cover (820x312)"} |->
        CASE n = "Thumbnail (150x150)"            -> <<150, 150>>
          [] n = "Small (320x240)"                -> <<320, 240>>
          [] n = "Medium (640x480)"               -> <<640, 480>>
          [] n = "Large (1024x768)"               -> <<1024, 768>>
          [] n = "HD (1920x1080)"                 -> <<1080, 1920>>
          [] n = "Instagram Square (1080x1080)"   -> <<1080, 1080>>
          [] n = "Instagram Portrait (1080x1350)" -> <<1080, 1350>>
          [] n = "Twitter (1200x675)"             -> <<1200, 675>>
          [] n = "Facebook Cover (820x312)"       -> <<820, 312>>]

preset_sizes ==
    [n \in {"Thumbnail (150x150)", "Small (320x240)", "Medium (640x480)",
            "Large (1024x768)", "HD (1920x1080)", "Instagram Square (1080x1080)",
            "Instagram Portrait (1080x1350)", "Twitter (1200x675)",
            "Facebook Cover (820x312)"} |->
        CASE n = "Thumbnail (150x150)"            -> <<150, 150>>
          [] n = "Small (320x240)"                -> <<320, 240>>
          [] n = "Medium (640x480)"               -> <<640, 480>>
          [] n = "Large (1024x768)"               -> <<1024, 768>>
          [] n = "HD (1920x1080)"                 -> <<1920, 1080>>
          [] n = "Instagram Square (1080x1080)"   -> <<1080, 1080>>
          [] n = "Instagram Portrait (1080x1350)" -> <<1080, 1350>>
          [] n = "Twitter (1200x675)"             -> <<1200, 675>>
          [] n = "Facebook Cover (820x312)"       -> <<820, 312>>]

\* a planner step either yields dimensions or raises
Planned(w, h) == [raises |-> FALSE, exception |-> "", new_width |-> w, new_height |-> h]
PlanRaises(e) == [raises |-> TRUE, exception |-> e, new_width |-> 0, new_height |-> 0]

PercentageBranch_rounding(image, p) ==
    Planned((image.width * p + 50) \div 100, (image.height * p + 50) \div 100)

\* new_width = int(image.width * percentage / 100), same for the height
PercentageBranch(image, p) ==
    Planned(IntOfQuotient(image.width * p, 100), IntOfQuotient(image.height * p, 100))

CustomBranch_inverted_ratio(image, ratio, width, height) ==
    IF ratio
    THEN IF image.height = 0 \/ image.width = 0
         THEN PlanRaises("ZeroDivisionError")
         ELSE Planned(width, IntOfQuotient(width * image.width, image.height))
    ELSE Planned(width, height)

\* maintain_ratio: aspect_ratio = image.width / image.height raises
\* ZeroDivisionError for height 0, and new_width / aspect_ratio for width 0;
\* otherwise new_height = int(new_width / aspect_ratio).
\* Without the lock both number inputs are taken as entered.
CustomBranch(image, ratio, width, height) ==
    IF ratio
    THEN IF image.height = 0 \/ image.width = 0
         THEN PlanRaises("ZeroDivisionError")
         ELSE Planned(width, IntOfRatioQuotient(width, image.width, image.height))
    ELSE Planned(width, height)

\* new_width, new_height = preset_sizes[preset]: KeyError for a missing key
PresetBranch(name) ==
    IF name \in DOMAIN preset_sizes
    THEN Planned(preset_sizes[name][1], preset_sizes[name][2])
    ELSE PlanRaises("KeyError")

\* target dimension computation of the resizing tool
Plan(image, method, p, ratio, width, height, name) ==
    CASE method = "Percentage"        -> PercentageBranch(image, p)
      [] method = "Custom Dimensions" -> CustomBranch(image, ratio, width, height)
      [] OTHER                        -> PresetBranch(name)

\* size_change = ((new_pixels - original_pixels) / original_pixels) * 100
size_change_raises(image) == image.width * image.height = 0

(* -------------------------- Format Conversion --------------------------- *)

\* keys of the formats dictionary, in order
FormatNames == <<"PNG", "JPEG", "WebP", "BMP", "GIF", "TIFF">>

formats ==
    [t \in Range(FormatNames) |->
        CASE t = "PNG"  -> [extension |-> "png",  mime |-> "image/png",  supports_transparency |-> TRUE]
          [] t = "JPEG" -> [extension |-> "jpg",  mime |-> "image/jpeg", supports_transparency |-> FALSE]
          [] t = "WebP" -> [extension |-> "webp", mime |-> "image/webp", supports_transparency |-> TRUE]
          [] t = "BMP"  -> [extension |-> "bmp",  mime |-> "image/bmp",  supports_transparency |-> FALSE]
          [] t = "GIF"  -> [extension |-> "gif",  mime |-> "image/gif",  supports_transparency |-> TRUE]
          [] t = "TIFF" -> [extension |-> "tiff", mime |-> "image/tiff", supports_transparency |-> TRUE]]

\* Pillow looks the encoder up by the upper-cased format name
PillowFormat(t) == IF t = "WebP" THEN "WEBP" ELSE t

\* the quality slider exists for JPEG and WebP only; 0 stands for None
HasQualitySlider(t) == t \in {"JPEG", "WebP"}

DefaultQuality(t) ==
    CASE t = "JPEG" -> DefaultJpegQuality
      [] t = "WebP" -> DefaultWebpQuality
      [] OTHER      -> 0

\* values tried on the quality sliders
Qualities == {MinQuality, DefaultWebpQuality, DefaultJpegQuality, MaxQuality}

\* values tried on the colour picker
BgColors == {DefaultBgColor, "#000000"}

\* the colour picker is shown for an RGBA image and a codec without transparency
NeedsBackground(image, t) == image.mode = "RGBA" /\ ~formats[t].supports_transparency

save_params_optimize_lossless(t, q) ==
    [keys |-> (IF q # 0 THEN {"quality"} ELSE {"optimize"}),
     quality |-> q,
     optimize |-> (q = 0)]

\* save_params: keys is the set of keyword arguments passed to save
save_params(t, q) ==
    [keys |-> (IF q # 0 THEN {"quality"} ELSE {}) \cup (IF t = "PNG" THEN {"optimize"} ELSE {}),
     quality |-> q,
     optimize |-> (t = "PNG")]

NoEncoderInput ==
    [called |-> FALSE, mode |-> "RGB", transparency |-> FALSE, width |-> 0, height |-> 0,
     format |-> "PNG", params |-> save_params("BMP", 0)]

EncoderInput(img, t, q) ==
    [called |-> TRUE, mode |-> img.mode, transparency |-> img.transparency,
     width |-> img.width, height |-> img.height, format |-> t, params |-> save_params(t, q)]

(* ------------------------- result of one script run -------------------- *)
(* outcome: "idle"     the script ran to its end, no button was pressed    *)
(*          "uncaught" an exception left the script outside any try block  *)
(*          "ok"       the pressed button's handler ran to its end         *)
(*          "error"    the handler's except clause called st.error         *)
(* log: what the handler did and rendered, in order.                       *)

Run(o, e, l, w, h, args, enc) ==
    [outcome |-> o, exception |-> e, log |-> l, new_width |-> w, new_height |-> h,
     resize_args |-> args, encoder_input |-> enc]

Idle(w, h) == Run("idle", "", <<>>, w, h, <<>>, NoEncoderInput)
Uncaught(e) == Run("uncaught", e, <<>>, 0, 0, <<>>, NoEncoderInput)

\* lines of the script up to and including the display of the original image
Opens(f) == f.kind # "none" /\ Image_open(f).ok
Displays(f) == Opens(f) /\ ~st_image_raises(f)

\* "Resize Image" handler
ResizeHandler(image, w, h) ==
    IF resize_raises(w, h)
    THEN Run("error", "ValueError", <<"resize", "error">>, w, h, <<w, h>>, NoEncoderInput)
    ELSE IF save_raises(resize(image, w, h), image.format)
    THEN Run("error", "OSError", <<"resize", "result_image", "save", "error">>,
             w, h, <<w, h>>, NoEncoderInput)
    ELSE Run("ok", "", <<"resize", "result_image", "save", "success", "download">>,
             w, h, <<w, h>>, NoEncoderInput)

\* one execution of the Image Resizing tool
ResizeScript(f, method, p, ratio, width, height, name, button) ==
    LET image == Image_open(f)
        plan == Plan(image, method, p, ratio, width, height, name)
    IN  IF f.kind = "none" THEN Idle(0, 0)
        ELSE IF ~image.ok THEN Uncaught("UnidentifiedImageError")
        ELSE IF st_image_raises(f) THEN Uncaught("OSError")
        ELSE IF plan.raises THEN Uncaught(plan.exception)
        ELSE IF size_change_raises(image) THEN Uncaught("ZeroDivisionError")
        ELSE IF ~button THEN Idle(plan.new_width, plan.new_height)
        ELSE ResizeHandler(image, plan.new_width, plan.new_height)

\* "Convert Image" handler
ConvertHandler(f, image, t, q) ==
    LET flattened == IF NeedsBackground(image, t) THEN composite(image) ELSE image
        log1 == IF NeedsBackground(image, t) THEN <<"composite">> ELSE <<>>
        coerce == \/ t = "JPEG" /\ flattened.mode \notin {"RGB", "L"}
                  \/ t = "BMP" /\ flattened.mode = "RGBA"
        converted_image == IF coerce THEN convert_RGB(flattened) ELSE flattened
        log2 == IF coerce THEN log1 \o <<"coerce">> ELSE log1
        enc == EncoderInput(converted_image, t, q)
    IN  IF save_raises(converted_image, PillowFormat(t))
        THEN Run("error", "OSError", log2 \o <<"save", "error">>, 0, 0, <<>>, enc)
        ELSE IF f.length = 0
        THEN Run("error", "ZeroDivisionError",
                 log2 \o <<"save", "success", "error">>, 0, 0, <<>>, enc)
        ELSE Run("ok", "", log2 \o <<"save", "success", "metrics", "download">>,
                 0, 0, <<>>, enc)

\* one execution of the Format Conversion tool
ConvertScript(f, t, q, button) ==
    LET image == Image_open(f)
    IN  IF f.kind = "none" THEN Idle(0, 0)
        ELSE IF ~image.ok THEN Uncaught("UnidentifiedImageError")
        ELSE IF st_image_raises(f) THEN Uncaught("OSError")
        ELSE IF ~button THEN Idle(0, 0)
        ELSE ConvertHandler(f, image, t, q)

\* what rembg's remove() does with the PNG bytes it is given
RemoveResults == {"png", "raises", "garbage"}

\* "Remove Background" handler
RemoveHandler(image, result) ==
    IF save_raises(image, "PNG")
    THEN Run("error", "OSError", <<"save", "error">>, 0, 0, <<>>, NoEncoderInput)
    ELSE IF result = "raises"
    THEN Run("error", "Exception", <<"save", "remove", "error">>, 0, 0, <<>>, NoEncoderInput)
    ELSE IF result = "garbage"
    THEN Run("error", "UnidentifiedImageError",
             <<"save", "remove", "decode", "error">>, 0, 0, <<>>, NoEncoderInput)
    ELSE Run("ok", "", <<"save", "remove", "decode", "result_image", "success", "download">>,
             0, 0, <<>>, NoEncoderInput)

\* one execution of the Background Removal tool
RemoveScript(f, button, result) ==
    LET image == Image_open(f)
    IN  IF f.kind = "none" THEN Idle(0, 0)
        ELSE IF ~image.ok THEN Uncaught("UnidentifiedImageError")
        ELSE IF st_image_raises(f) THEN Uncaught("OSError")
        ELSE IF ~button THEN Idle(0, 0)
        ELSE RemoveHandler(image, result)

(* ---------------------- Simple Background Effects ---------------------- *)

\* options of the effect selectbox, in order
EffectOptions == <<"Blur Background", "Grayscale", "White Background">>

effect_map ==
    [e \in Range(EffectOptions) |->
        CASE e = "Blur Background" -> "blur"
          [] e = "Grayscale"       -> "grayscale"
          [] e = "White Background" -> "white"]

\* image.filter(GaussianBlur) raises ValueError on a palette image
filter_raises(image) == image.mode = "P"

apply_simple_background_effect(image, effect_type) ==
    CASE effect_type = "blur"      -> image
      [] effect_type = "grayscale" -> [image EXCEPT !.mode = "RGBA", !.transparency = FALSE]
      [] OTHER                     -> image

\* "Apply Effect" handler
EffectHandler(image, effect) ==
    LET output_image == apply_simple_background_effect(image, effect_map[effect])
    IN  IF effect_map[effect] = "blur" /\ filter_raises(image)
        THEN Run("error", "ValueError", <<"effect", "error">>, 0, 0, <<>>, NoEncoderInput)
        ELSE IF save_raises(output_image, "PNG")
        THEN Run("error", "OSError", <<"effect", "result_image", "save", "error">>,
                 0, 0, <<>>, NoEncoderInput)
        ELSE Run("ok", "", <<"effect", "result_image", "save", "success", "download">>,
                 0, 0, <<>>, NoEncoderInput)

\* one execution of the Simple Background Effects tool
EffectScript(f, effect, button) ==
    LET image == Image_open(f)
    IN  IF f.kind = "none" THEN Idle(0, 0)
        ELSE IF ~image.ok THEN Uncaught("UnidentifiedImageError")
        ELSE IF st_image_raises(f) THEN Uncaught("OSError")
        ELSE IF ~button THEN Idle(0, 0)
        ELSE EffectHandler(image, effect)

(* -------------------------------- state -------------------------------- *)

VARIABLES
    REMBG_AVAILABLE,  \* the import of rembg succeeded
    tool_choice,      \* sidebar radio
    uploaded_file,    \* the selected tool's file_uploader
    resize_method,    \* resizing: radio
    percentage,       \* resizing: slider
    maintain_ratio,   \* resizing: checkbox
    width_input,      \* resizing: number input "Width (px)"; 0 when not shown
    height_input,     \* resizing: number input "Height (px)"; 0 when not shown
    preset,           \* resizing: selectbox
    last_edited,      \* resizing: the number input the user changed last
    target_format,    \* conversion: selectbox
    quality,          \* conversion: slider, 0 for None
    bg_color,         \* conversion: colour picker
    effect_type,      \* effects: selectbox
    run               \* what the last execution of the script did

widgets ==
    <<resize_method, percentage, maintain_ratio, width_input, height_input, preset,
      last_edited, target_format, quality, bg_color, effect_type>>

resize_widgets == <<resize_method, percentage, maintain_ratio, width_input, height_input,
                    preset, last_edited>>
convert_widgets == <<target_format, quality, bg_color>>

vars == <<REMBG_AVAILABLE, tool_choice, uploaded_file, widgets, run>>

\* tools offered by the sidebar radio, in order
Tools(rembg) ==
    IF rembg
    THEN <<"Background Removal", "Image Resizing", "Format Conversion">>
    ELSE <<"Image Resizing", "Format Conversion", "Simple Background Effects">>

NotEdited == [field |-> "none", value |-> 0]

\* a widget that is not rendered in a run loses its value; the next time it
\* is rendered it shows its default
DefaultWidgets ==
    /\ resize_method' = ResizeMethods[1]
    /\ percentage' = DefaultPercentage
    /\ maintain_ratio' = TRUE
    /\ width_input' = 0
    /\ height_input' = 0
    /\ preset' = PresetOptions[1]
    /\ last_edited' = NotEdited
    /\ target_format' = FormatNames[1]
    /\ quality' = DefaultQuality(FormatNames[1])
    /\ bg_color' = DefaultBgColor
    /\ effect_type' = EffectOptions[1]

\* the script, executed with the new widget values
Script(button, result) ==
    run' = CASE tool_choice' = "Image Resizing" ->
                    ResizeScript(uploaded_file', resize_method', percentage', maintain_ratio',
                                 width_input', height_input', preset', button)
             [] tool_choice' = "Format Conversion" ->
                    ConvertScript(uploaded_file', target_format', quality', button)
             [] tool_choice' = "Background Removal" ->
                    RemoveScript(uploaded_file', button, result)
             [] OTHER ->
                    EffectScript(uploaded_file', effect_type', button)

Init ==
    /\ REMBG_AVAILABLE \in BOOLEAN
    /\ tool_choice = Tools(REMBG_AVAILABLE)[1]
    /\ uploaded_file = NoFile
    /\ resize_method = ResizeMethods[1]
    /\ percentage = DefaultPercentage
    /\ maintain_ratio = TRUE
    /\ width_input = 0
    /\ height_input = 0
    /\ preset = PresetOptions[1]
    /\ last_edited = NotEdited
    /\ target_format = FormatNames[1]
    /\ quality = DefaultQuality(FormatNames[1])
    /\ bg_color = DefaultBgColor
    /\ effect_type = EffectOptions[1]
    /\ run = Idle(0, 0)

(* ------------------------------- sidebar ------------------------------- *)

SelectTool(t) ==
    /\ t \in Range(Tools(REMBG_AVAILABLE))
    /\ t # tool_choice
    /\ tool_choice' = t
    /\ uploaded_file' = NoFile
    /\ DefaultWidgets
    /\ UNCHANGED REMBG_AVAILABLE
    /\ Script(FALSE, "png")

\* the user puts a file into the selected tool's empty uploader; every
\* widget below the uploader is rendered for the first time
Upload(f) ==
    /\ uploaded_file = NoFile
    /\ f \in Files
    /\ f.format \in UploaderTypes(tool_choice)
    /\ uploaded_file' = f
    /\ DefaultWidgets
    /\ UNCHANGED <<REMBG_AVAILABLE, tool_choice>>
    /\ Script(FALSE, "png")

\* the user removes the file; the widgets below the uploader are no longer
\* rendered and lose their values
ClearFile ==
    /\ uploaded_file # NoFile
    /\ uploaded_file' = NoFile
    /\ DefaultWidgets
    /\ UNCHANGED <<REMBG_AVAILABLE, tool_choice>>
    /\ Script(FALSE, "png")

(* --------------------------- Image Resizing ---------------------------- *)

ResizeShown == tool_choice = "Image Resizing" /\ Displays(uploaded_file)

\* values typed into a number input
InputDims == (MinInputDim..MaxInput) \cup {MaxInputDim}

SelectResizeMethod(m) ==
    /\ ResizeShown
    /\ m \in Range(ResizeMethods)
    /\ m # resize_method
    /\ resize_method' = m
    /\ percentage' = DefaultPercentage
    /\ maintain_ratio' = TRUE
    /\ width_input' = IF m = "Custom Dimensions" THEN Image_open(uploaded_file).width ELSE 0
    /\ height_input' = 0
    /\ preset' = PresetOptions[1]
    /\ last_edited' = NotEdited
    /\ UNCHANGED <<REMBG_AVAILABLE, tool_choice, uploaded_file, convert_widgets, effect_type>>
    /\ Script(FALSE, "png")

SetPercentage(p) ==
    /\ ResizeShown
    /\ resize_method = "Percentage"
    /\ p \in Percentages
    /\ p # percentage
    /\ percentage' = p
    /\ UNCHANGED <<REMBG_AVAILABLE, tool_choice, uploaded_file, resize_method,
                   maintain_ratio, width_input, height_input, preset, last_edited,
                   convert_widgets, effect_type>>
    /\ Script(FALSE, "png")

\* the height number input exists only while the checkbox is off
ToggleMaintainRatio ==
    /\ ResizeShown
    /\ resize_method = "Custom Dimensions"
    /\ maintain_ratio' = ~maintain_ratio
    /\ height_input' = IF maintain_ratio THEN Image_open(uploaded_file).height ELSE 0
    /\ UNCHANGED <<REMBG_AVAILABLE, tool_choice, uploaded_file, resize_method, percentage,
                   width_input, preset, last_edited, convert_widgets, effect_type>>
    /\ Script(FALSE, "png")

EditWidth(w) ==
    /\ ResizeShown
    /\ resize_method = "Custom Dimensions"
    /\ w \in InputDims
    /\ w # width_input
    /\ width_input' = w
    /\ last_edited' = [field |-> "width", value |-> w]
    /\ UNCHANGED <<REMBG_AVAILABLE, tool_choice, uploaded_file, resize_method, percentage,
                   maintain_ratio, height_input, preset, convert_widgets, effect_type>>
    /\ Script(FALSE, "png")

EditHeight(h) ==
    /\ ResizeShown
    /\ resize_method = "Custom Dimensions"
    /\ ~maintain_ratio
    /\ h \in InputDims
    /\ h # height_input
    /\ height_input' = h
    /\ last_edited' = [field |-> "height", value |-> h]
    /\ UNCHANGED <<REMBG_AVAILABLE, tool_choice, uploaded_file, resize_method, percentage,
                   maintain_ratio, width_input, preset, convert_widgets, effect_type>>
    /\ Script(FALSE, "png")

SelectPreset(name) ==
    /\ ResizeShown
    /\ resize_method = "Preset Sizes"
    /\ name \in Range(PresetOptions)
    /\ name # preset
    /\ preset' = name
    /\ UNCHANGED <<REMBG_AVAILABLE, tool_choice, uploaded_file, resize_method, percentage,
                   maintain_ratio, width_input, height_input, last_edited,
                   convert_widgets, effect_type>>
    /\ Script(FALSE, "png")

ClickResize ==
    /\ ResizeShown
    /\ run.outcome # "uncaught"
    /\ UNCHANGED <<REMBG_AVAILABLE, tool_choice, uploaded_file, widgets>>
    /\ Script(TRUE, "png")

(* -------------------------- Format Conversion --------------------------- *)

ConvertShown == tool_choice = "Format Conversion" /\ Displays(uploaded_file)

SelectTargetFormat(t) ==
    /\ ConvertShown
    /\ t \in Range(FormatNames)
    /\ t # target_format
    /\ target_format' = t
    /\ quality' = DefaultQuality(t)
    /\ bg_color' = DefaultBgColor
    /\ UNCHANGED <<REMBG_AVAILABLE, tool_choice, uploaded_file, resize_widgets, effect_type>>
    /\ Script(FALSE, "png")

SetQuality(q) ==
    /\ ConvertShown
    /\ HasQualitySlider(target_format)
    /\ q \in Qualities
    /\ q # quality
    /\ quality' = q
    /\ UNCHANGED <<REMBG_AVAILABLE, tool_choice, uploaded_file, resize_widgets,
                   target_format, bg_color, effect_type>>
    /\ Script(FALSE, "png")

PickBgColor(c) ==
    /\ ConvertShown
    /\ NeedsBackground(Image_open(uploaded_file), target_format)
    /\ c \in BgColors
    /\ c # bg_color
    /\ bg_color' = c
    /\ UNCHANGED <<REMBG_AVAILABLE, tool_choice, uploaded_file, resize_widgets,
                   target_format, quality, effect_type>>
    /\ Script(FALSE, "png")

ClickConvert ==
    /\ ConvertShown
    /\ UNCHANGED <<REMBG_AVAILABLE, tool_choice, uploaded_file, widgets>>
    /\ Script(TRUE, "png")

(* -------------------------- Background Removal -------------------------- *)

ClickRemoveBackground(result) ==
    /\ tool_choice = "Background Removal"
    /\ Displays(uploaded_file)
    /\ result \in RemoveResults
    /\ UNCHANGED <<REMBG_AVAILABLE, tool_choice, uploaded_file, widgets>>
    /\ Script(TRUE, result)

(* ---------------------- Simple Background Effects ---------------------- *)

SelectEffect(e) ==
    /\ tool_choice = "Simple Background Effects"
    /\ Displays(uploaded_file)
    /\ e \in Range(EffectOptions)
    /\ e # effect_type
    /\ effect_type' = e
    /\ UNCHANGED <<REMBG_AVAILABLE, tool_choice, uploaded_file, resize_widgets, convert_widgets>>
    /\ Script(FALSE, "png")

ClickApplyEffect ==
    /\ tool_choice = "Simple Background Effects"
    /\ Displays(uploaded_file)
    /\ UNCHANGED <<REMBG_AVAILABLE, tool_choice, uploaded_file, widgets>>
    /\ Script(TRUE, "png")

(* --------------------------- specification ------------------------------ *)

Next ==
    \/ \E t \in Range(Tools(REMBG_AVAILABLE)) : SelectTool(t)
    \/ \E f \in Files : Upload(f)
    \/ ClearFile
    \/ \E m \in Range(ResizeMethods) : SelectResizeMethod(m)
    \/ \E p \in Percentages : SetPercentage(p)
    \/ ToggleMaintainRatio
    \/ \E w \in InputDims : EditWidth(w)
    \/ \E h \in InputDims : EditHeight(h)
    \/ \E name \in Range(PresetOptions) : SelectPreset(name)
    \/ ClickResize
    \/ \E t \in Range(FormatNames) : SelectTargetFormat(t)
    \/ \E q \in Qualities : SetQuality(q)
    \/ \E c \in BgColors : PickBgColor(c)
    \/ ClickConvert
    \/ \E result \in RemoveResults : ClickRemoveBackground(result)
    \/ \E e \in Range(EffectOptions) : SelectEffect(e)
    \/ ClickApplyEffect

Spec == Init /\ [][Next]_vars

TypeOK ==
    /\ REMBG_AVAILABLE \in BOOLEAN
    /\ tool_choice \in Range(Tools(REMBG_AVAILABLE))
    /\ uploaded_file \in Files \cup {NoFile}
    /\ resize_method \in Range(ResizeMethods)
    /\ percentage \in Percentages
    /\ maintain_ratio \in BOOLEAN
    /\ preset \in Range(PresetOptions)
    /\ target_format \in Range(FormatNames)
    /\ quality \in Qualities \cup {0}
    /\ bg_color \in BgColors
    /\ effect_type \in Range(EffectOptions)
    /\ run.outcome \in {"idle", "uncaught", "ok", "error"}

(* =============================== claims ================================ *)

image == Image_open(uploaded_file)

\* the last run was a press of the tool's button
HandlerRan == run.outcome \in {"ok", "error"}

Did(step) == step \in Range(run.log)

ConversionRan == tool_choice = "Format Conversion" /\ HandlerRan

\* the planner's result of the last run is on display
PlanShown(method) ==
    /\ ResizeShown
    /\ resize_method = method
    /\ run.outcome # "uncaught"

\* C1: a source with transparency (alpha band or palette transparency)
\* converted to a codec without transparency support is composited onto the
\* background before the coercion to RGB and before the encoder is called.
C1_CompositeBeforeCoerceOrEncode ==
    ( /\ ConversionRan
      /\ HasTransparency(image)
      /\ ~formats[target_format].supports_transparency
      /\ (Did("coerce") \/ Did("save")) )
    => run.log[1] = "composite"

\* C2: for a codec without transparency support the image handed to the
\* encoder has no alpha band and has the size of the source.
C2_EncoderInputOpaqueSameSize ==
    ( /\ ConversionRan
      /\ ~formats[target_format].supports_transparency
      /\ run.encoder_input.called )
    => /\ ~HasAlphaBand(run.encoder_input.mode)
       /\ run.encoder_input.width = image.width
       /\ run.encoder_input.height = image.height

\* C3: the width and height passed to image.resize are both >= 1.
C3_TargetDimensionsPositive ==
    ( /\ tool_choice = "Image Resizing"
      /\ HandlerRan
      /\ Did("resize") )
    => /\ run.resize_args[1] >= 1
       /\ run.resize_args[2] >= 1

\* C4: in percentage mode the target dimensions are floor(W*p/100) and
\* floor(H*p/100); 800x600 at 50 gives 400x300.
C4_PercentageIsFloor ==
    PlanShown("Percentage")
    => /\ 100 * run.new_width <= image.width * percentage
       /\ image.width * percentage < 100 * (run.new_width + 1)
       /\ 100 * run.new_height <= image.height * percentage
       /\ image.height * percentage < 100 * (run.new_height + 1)
       /\ ( image.width = 800 /\ image.height = 600 /\ percentage = 50
            => run.new_width = 400 /\ run.new_height = 300 )
       /\ ( Did("resize") => run.resize_args = <<run.new_width, run.new_height>> )

C4_Witness ==
    /\ PlanShown("Percentage")
    /\ image.width = 800 /\ image.height = 600 /\ percentage = 50
    /\ run.outcome = "ok"
    /\ run.resize_args = <<400, 300>>

\* |x - a/b| <= 1/2 for b > 0: x is an integer nearest to a/b
IsNearest(x, a, b) == 2 * b * x - 2 * a <= b /\ 2 * a - 2 * b * x <= b

\* C5: with the aspect lock on and the width edited, the computed height is
\* the integer nearest to W'*H/W.
C5_LockedHeightIsNearest ==
    ( /\ PlanShown("Custom Dimensions")
      /\ maintain_ratio
      /\ last_edited.field = "width" )
    => IsNearest(run.new_height, width_input * image.height, image.width)

C7_LabelSize(name) ==
    CASE name = PresetOptions[1] -> <<150, 150>>
      [] name = PresetOptions[2] -> <<320, 240>>
      [] name = PresetOptions[3] -> <<640, 480>>
      [] name = PresetOptions[4] -> <<1024, 768>>
      [] name = PresetOptions[5] -> <<1920, 1080>>
      [] name = PresetOptions[6] -> <<1080, 1080>>
      [] name = PresetOptions[7] -> <<1080, 1350>>
      [] name = PresetOptions[8] -> <<1200, 675>>
      [] name = PresetOptions[9] -> <<820, 312>>

\* C7: each of the nine selectable presets has a table entry, the lookup
\* yields the pair belonging to the name, and no other name is looked up.
C7_PresetLookupExact ==
    /\ Len(PresetOptions) = 9
    /\ Cardinality(Range(PresetOptions)) = 9
    /\ ( tool_choice = "Image Resizing" /\ Displays(uploaded_file)
         /\ resize_method = "Preset Sizes" )
       => /\ preset \in Range(PresetOptions)
          /\ run.outcome # "uncaught"
          /\ <<run.new_width, run.new_height>> = C7_LabelSize(preset)
          /\ ( preset = "Thumbnail (150x150)" => run.new_width = 150 /\ run.new_height = 150 )
          /\ ( preset = "HD (1920x1080)" => run.new_width = 1920 /\ run.new_height = 1080 )
          /\ ( preset = "Instagram Square (1080x1080)"
               => run.new_width = 1080 /\ run.new_height = 1080 )

C7_Witness ==
    /\ PlanShown("Preset Sizes")
    /\ preset = "HD (1920x1080)"
    /\ run.outcome = "ok"
    /\ run.resize_args = <<1920, 1080>>

\* C8: in the Format Converter an unsupported mode/codec combination, bytes
\* that cannot be decoded and a zero-length original each end the request in
\* a caught error, distinguishable from the other two; none leaves the script
\* as an uncaught exception.
C8_ConversionFailuresCaught ==
    tool_choice = "Format Conversion"
    => /\ ( uploaded_file.kind = "corrupt"
            => run.outcome \in {"idle", "error"} )
       /\ ( uploaded_file.kind = "empty"
            => run.outcome \in {"idle", "error"} )
       /\ ( HandlerRan /\ image.mode \notin WritableModes(PillowFormat(target_format))
                       /\ ~NeedsBackground(image, target_format)
                       /\ ~Did("coerce")
            => run.outcome = "error" /\ run.exception = "OSError" )

ThreeOperations == {"Background Removal", "Image Resizing", "Format Conversion"}

\* C9: a request of one of the three operations in which a step fails ends
\* with the error message, shows no result image or success message before it,
\* offers no download, and runs no step twice.
C9_NoPartialOutputOnFailure ==
    ( tool_choice \in ThreeOperations /\ run.outcome = "error" )
    => /\ run.log[Len(run.log)] = "error"
       /\ ~Did("result_image")
       /\ ~Did("success")
       /\ ~Did("download")
       /\ Cardinality(Range(run.log)) = Len(run.log)

C11_EncoderParametersPerCodec ==
    ( ConversionRan /\ run.encoder_input.called )
    => LET params == run.encoder_input.params
       IN  /\ run.encoder_input.format = target_format
           /\ ("quality" \in params.keys) <=> (target_format \in {"JPEG", "WebP"})
           /\ ( "quality" \in params.keys
                => /\ params.quality = quality
                   /\ params.quality >= 1
                   /\ params.quality <= 100 )
           /\ ("optimize" \in params.keys) <=> (target_format = "PNG")
           /\ ( "optimize" \in params.keys => params.optimize = TRUE )
           /\ params.keys \subseteq {"quality", "optimize"}
           /\ ( target_format \in {"BMP", "GIF", "TIFF"} => params.keys = {} )

C11_Witness ==
    /\ ConversionRan
    /\ run.outcome = "ok"
    /\ target_format = "WebP"
    /\ quality = 1
    /\ run.encoder_input.called
    /\ run.encoder_input.params.keys = {"quality"}
    /\ run.encoder_input.params.quality = 1

====
